---- MODULE Spec2Model ----
(***************************************************************************)
(* DISC-E: a Discord bot that turns "/dalle <prompt>" into a call to an    *)
(* image-generation endpoint and posts the result.  The repository holds   *)
(* four evolutions of the bot, modelled as four values of `variant`:       *)
(*   "restricted"  src/main.go:1-253       fragments, no markers,          *)
(*                                          one admitted author            *)
(*   "single"      src/main.go:255-443     one image URL, markers          *)
(*   "fragment"    src/unnamed/part_001    fragments, markers, retry loop  *)
(*   "reaction"    src/unnamed/part_000    one image URL, markers, the     *)
(*                                          regenerate reaction            *)
(* discordgo runs every event handler in a goroutine of its own, so each   *)
(* handler instance is a process (procs[p]) whose steps interleave with    *)
(* the others at its outbound calls.  Every outbound call (chat platform,  *)
(* generation endpoint, file system) may fail.                             *)
(*                                                                         *)
(* Markers:  "working" = robot,  "preparing" = tools,  "succeeded" = check,*)
(*           "failed" = cross,   "retry" = repeat arrows.                  *)
(***************************************************************************)
EXTENDS Integers, Sequences, FiniteSets, TLC

\* ---------------------------------------------------------------- bounds
MaxTriggers == 2
MaxHandlers == 2
MaxRetries == 2
MaxFragments == 2
MaxChain == 4
MaxSeconds == 1

\* ------------------------------------------------------------- vocabulary
Variants == {"restricted", "single", "fragment", "reaction"}
Bot == "bot"
Owner == "owner"
Users == {Owner, "user"}
\* config.SpecialUser: set to one of the two users, so that the other user's
\* commands run as they do with the option unset.
SpecialUser == "user"
Lifecycle == {"working", "preparing", "succeeded", "failed"}
Terminal == {"succeeded", "failed"}
Procs == 1..MaxHandlers
Emojis == {"retry", "other"}
\* Who reacts: the handler tells the bot from everybody else, nothing more.
Reactors == {"user", Bot}

\* ------------------------------------------------------------------ texts
\* A text is a sequence of characters.  strings.ToLower, letter by letter
\* (the letters that occur in upper case in the texts below).
Lower(c) ==
  CASE c = "C" -> "c"
    [] c = "D" -> "d"
    [] c = "H" -> "h"
    [] OTHER -> c

ToLower(s) == [i \in 1..Len(s) |-> Lower(s[i])]

\* strings.TrimSpace: the white space at both ends is cut off.
RECURSIVE TrimLeft(_)
TrimLeft(s) == IF s # <<>> /\ Head(s) = " " THEN TrimLeft(Tail(s)) ELSE s

RECURSIVE TrimRight(_)
TrimRight(s) ==
  IF s # <<>> /\ s[Len(s)] = " " THEN TrimRight(SubSeq(s, 1, Len(s) - 1)) ELSE s

TrimSpace(s) == TrimRight(TrimLeft(s))

\* The literals of the handlers: "/dalle " (content[:7]) and "help".
Prefix == <<"/", "d", "a", "l", "l", "e", " ">>
PrefixLen == 7
Help == <<"h", "e", "l", "p">>

\* content[7:]
AfterPrefix(content) == SubSeq(content, PrefixLen + 1, Len(content))

\* content[:7] == "/dalle "  (only evaluated on a content long enough)
HasPrefix(content) == SubSeq(content, 1, PrefixLen) = Prefix

\* The texts users write:  "/Dalle Cat",  "/dalle  Help",  "hi", and two
\* texts at the edge of the command form:  "/dalle " (the prefix and nothing
\* else),  "/dalle  " (the prefix and white space).
CatText == <<"/", "D", "a", "l", "l", "e", " ", "C", "a", "t">>
HelpText == <<"/", "d", "a", "l", "l", "e", " ", " ", "H", "e", "l", "p">>
BareText == <<"/", "d", "a", "l", "l", "e", " ">>
BlankText == <<"/", "d", "a", "l", "l", "e", " ", " ">>
ChatText == <<"h", "i">>
Contents == {CatText, HelpText, ChatText}
EdgeContents == Contents \cup {BareText, BlankText}

\* The texts the bot writes: the help text, the image URL (or the caption of
\* the image file), config.SpeicalReply (set to a text that has the form of
\* a command, so that only the author check keeps the bot from answering
\* itself).
HelpReply == <<"T", "y", "p", "e">>
ImageReply == <<"u", "r", "l">>
SpeicalReply == <<"/", "d", "a", "l", "l", "e", " ", "c", "a", "t">>
BotTexts == {HelpReply, ImageReply, SpeicalReply}

VARIABLES
  variant,      \* which evolution of the bot is running
  dalleRetries, \* config.DalleRetries
  msgs,         \* the channel: a sequence of messages, the index is the ID
  procs,        \* the handler goroutines: a slot is idle or runs one handler
  events,       \* the number of inbound events delivered so far
  files,        \* scratch files on disk
  crashed,      \* the process died of a panic
  noopRemoved   \* the platform has answered success to the removal of a
                \* reaction that was not there (whether it does, or answers
                \* an error, the source does not decide: both are modelled)

config == <<variant, dalleRetries>>

vars == <<variant, dalleRetries, msgs, procs, events, files, crashed, noopRemoved>>

\* --------------------------------------------------------------- messages
NoMsg == 0

Message(author, ref, text) ==
  [author |-> author, ref |-> ref, text |-> text, reactions |-> {}]

\* s.MessageReactionAdd on success
ReactionAdded(ms, id, emoji) ==
  [ms EXCEPT ![id].reactions = @ \cup {emoji}]

\* s.MessageReactionRemove(..., "@me") on success
ReactionRemoved(ms, id, emoji) ==
  [ms EXCEPT ![id].reactions = @ \ {emoji}]

\* The bot keeps no state of its own: the channel outlives it.  A channel
\* that holds an exchange the reaction variant completed earlier: the command
\* (marked succeeded) and the bot's reply to it (marked retry).
EarlierExchange ==
  << [Message(Owner, NoMsg, CatText) EXCEPT !.reactions = {"succeeded"}],
     [Message(Bot, 1, ImageReply) EXCEPT !.reactions = {"retry"}] >>

\* ------------------------------------------------------------ scratch files
\* (a fragment name that leaves out the request's ID)
SharedFragmentFile(id, i) == <<NoMsg, i>>

\* "<id>-<i>.jpg" and "<id>.jpg"
FragmentFile(id, i) == <<id, i>>
MergedFile(id) == <<id, -1>>

\* ----------------------------------------------------------- error values
\* The error fetchImages returns: the one of the call or of the body that
\* failed, or, when the attempts are used up, the text
\* "Failed to get images for request (%v)" with imgReq.Duration, the time
\* since the start of the loop.
NoFailure == [text |-> "none"]
CallFailure == [text |-> "client.Do"]
BodyFailure == [text |-> "body"]
ExhaustedFailure(d) == [text |-> "Failed to get images for request", duration |-> d]

\* ------------------------------------------------------------- processes
IdleProc ==
  [pc |-> "idle", handler |-> "none", id |-> NoMsg, target |-> NoMsg,
   by |-> "none", emoji |-> "none", got |-> FALSE, prompt |-> <<>>, hops |-> 0,
   channelOk |-> TRUE,
   calls |-> 0, nfail |-> 0, answer |-> "none", returned |-> FALSE,
   fetched |-> "none", failure |-> NoFailure,
   nfrag |-> 0, written |-> 0, composed |-> "none", fileOpen |-> FALSE,
   swOld |-> "none", swNew |-> "none", swNext |-> "none", swState |-> "none",
   reply |-> NoMsg,
   annFailed |-> FALSE, lateWork |-> FALSE, sends |-> 0, posted |-> 0,
   placed |-> FALSE, term |-> "none"]

\* (a swap called with its two markers exchanged)
StartSwapBackward(r, old, new, next) ==
  [r EXCEPT !.pc = "swapRemove", !.swOld = new, !.swNew = old, !.swNext = next,
            !.swState = "none"]

\* A call to the two-step swap: the handler's position moves into it.
StartSwap(r, old, new, next) ==
  [r EXCEPT !.pc = "swapRemove", !.swOld = old, !.swNew = new, !.swNext = next,
            !.swState = "none"]

\* Work (a generation call, a composition step, a delivery send) done after
\* an annotation call of the same handler failed.
Work(r) == [r EXCEPT !.lateWork = @ \/ r.annFailed]

\* The locals of fetchImages / fetchImage are dead once the handler has taken
\* its next step; those of base64ToImage once it has returned.
PastFetch(r) ==
  [r EXCEPT !.calls = 0, !.nfail = 0, !.answer = "none", !.returned = FALSE,
            !.failure = NoFailure]
PastCompose(r) == [r EXCEPT !.nfrag = 0, !.written = 0]

Started(p) == procs[p].pc # "idle"
Done(p) == procs[p].pc = "done"
Running(p) == procs[p].pc \notin {"idle", "done"}

\* ------------------------------------------------------------------- Init
Init ==
  /\ variant \in Variants
  /\ dalleRetries \in IF variant \in {"restricted", "fragment"} THEN 0..MaxRetries ELSE {0}
  /\ msgs \in IF variant = "reaction" THEN {<<>>, EarlierExchange} ELSE {<<>>}
  /\ procs = [p \in Procs |-> IdleProc]
  /\ events = 0
  /\ files = {}
  /\ crashed = FALSE
  /\ noopRemoved = FALSE

\* ------------------------------------------------- the handlers' dispatch
\* The lowest idle slot takes the next event.
NextSlot(p) ==
  /\ events < MaxTriggers
  /\ procs[p].pc = "idle"
  /\ \A q \in Procs : q < p => Started(q)

FetchPc == IF variant \in {"restricted", "fragment"} THEN "fetchImages" ELSE "fetchImage"

\* base64ToImage: the range loop over the fragments, then combineImages
NextB64(r) == IF r.written < r.nfrag THEN "base64ToImage" ELSE "combineImages"

\* The handler's step after the generation call returned.
AfterFetch(r0) ==
  LET r == [r0 EXCEPT !.returned = TRUE]
  IN
  CASE variant = "restricted" -> [r EXCEPT !.pc = NextB64(r)]
    [] variant = "fragment" ->
         IF r.fetched = "err" THEN StartSwap(r, "working", "failed", "done")
         ELSE StartSwap(r, "working", "preparing", NextB64(r))
    [] variant = "single" ->
         IF r.fetched = "err" THEN StartSwap(r, "working", "failed", "done")
         ELSE [r EXCEPT !.pc = "send"]
    [] OTHER ->
         IF r.fetched = "ok" THEN [r EXCEPT !.pc = "send"]
         ELSE IF r.handler = "emoji" THEN [r EXCEPT !.pc = "done"]
         ELSE StartSwap(r, "working", "failed", "done")

\* The handler's step after base64ToImage returned.
AfterCompose(r) ==
  IF variant = "fragment" /\ r.composed = "err"
  THEN StartSwap(PastCompose(r), "preparing", "failed", "done")
  ELSE [PastCompose(r) EXCEPT !.pc = "open"]

\* ---------------------------------------------------------- onMessageHandler
\* The authors of the inbound messages.  Only the restricted variant (the
\* admitted ID) and the reaction variant (config.SpecialUser) tell one user
\* from another.
Authors == IF variant \in {"restricted", "reaction"} THEN Users ELSE {"user"}

\* The guard of the handler: length, prefix, author.
Admitted(author, text) ==
  LET content == ToLower(text)
  IN /\ Len(content) > PrefixLen
     /\ HasPrefix(content)
     /\ author # Bot
     /\ variant = "restricted" => author = Owner

\* A message-created event, for a message a user has just written or for
\* one the bot itself has posted (message mid of the channel): the guard, the
\* prompt, the guild and channel lookups (their errors are dropped; a failed
\* lookup leaves a nil pointer, which the handler's next statement
\* dereferences).
onMessageHandler(p, author, text, mid, lookupOk) ==
  /\ ~crashed /\ NextSlot(p)
  /\ text \in IF author = Bot THEN BotTexts ELSE EdgeContents
  /\ IF author = Bot
     THEN /\ mid \in 1..Len(msgs)
          /\ msgs[mid].author = Bot /\ msgs[mid].text = text
          /\ msgs' = msgs
     ELSE /\ mid = Len(msgs) + 1
          /\ msgs' = Append(msgs, Message(author, NoMsg, text))
  /\ LET content == ToLower(text)
         r == [IdleProc EXCEPT !.handler = "message", !.id = mid, !.target = mid,
                               !.by = author]
         q == [r EXCEPT !.prompt = TrimSpace(AfterPrefix(content)),
                        !.channelOk = lookupOk]
     IN IF ~Admitted(author, text)
        THEN /\ lookupOk
             /\ procs' = [procs EXCEPT ![p] = [r EXCEPT !.pc = "done"]]
             /\ crashed' = crashed
        ELSE IF ~lookupOk
        THEN /\ procs' = [procs EXCEPT ![p] = [q EXCEPT !.pc = "panic"]]
             /\ crashed' = TRUE
        ELSE /\ procs' = [procs EXCEPT ![p] = [q EXCEPT !.pc =
                    IF variant = "restricted" THEN FetchPc
                    ELSE IF q.prompt = Help THEN "help" ELSE "addWorking"]]
             /\ crashed' = crashed
  /\ events' = events + 1
  /\ UNCHANGED <<config, noopRemoved, files>>

\* s.ChannelMessageSend(help text); its error is dropped.
sendHelp(p, ok) ==
  /\ ~crashed /\ procs[p].pc = "help"
  /\ msgs' = IF ok THEN Append(msgs, Message(Bot, NoMsg, HelpReply)) ELSE msgs
  /\ procs' = [procs EXCEPT ![p].pc = "done"]
  /\ UNCHANGED <<config, noopRemoved, events, files, crashed>>

\* s.MessageReactionAdd(working) on the command message; an error returns.
addWorking(p, ok) ==
  /\ ~crashed /\ procs[p].pc = "addWorking"
  /\ LET r == procs[p]
     IN IF ok
        THEN /\ msgs' = ReactionAdded(msgs, r.target, "working")
             /\ procs' = [procs EXCEPT ![p] = [r EXCEPT !.placed = TRUE, !.pc =
                   IF variant = "reaction" /\ SpecialUser # ""
                      /\ SpecialUser = msgs[r.id].author
                   THEN "special" ELSE FetchPc]]
        ELSE /\ msgs' = msgs
             /\ procs' = [procs EXCEPT ![p] = [r EXCEPT !.annFailed = TRUE, !.pc = "done"]]
  /\ UNCHANGED <<config, noopRemoved, events, files, crashed>>

\* s.ChannelMessageSendReply(config.SpeicalReply)
specialReply(p, ok) ==
  /\ ~crashed /\ procs[p].pc = "special"
  /\ LET r == procs[p]
     IN IF ok
        THEN /\ msgs' = Append(msgs, Message(Bot, r.id, SpeicalReply))
             /\ procs' = [procs EXCEPT ![p].pc = FetchPc]
        ELSE /\ msgs' = msgs
             /\ procs' = [procs EXCEPT ![p] = StartSwap(r, "working", "failed", "done")]
  /\ UNCHANGED <<config, noopRemoved, events, files, crashed>>

\* ------------------------------------------------------- generation client
\* (a loop that runs one pass too many)
FetchLoopOffByOne(p) == procs[p].calls <= dalleRetries

\* The retry loop's condition: for i := 0; i < config.DalleRetries; i++
FetchLoopContinues(p) == procs[p].calls < dalleRetries

\* The answers the endpoint can give to one call of the retry loop:
\*   "nilresp"   transport error, client.Do returns a nil response
\*   "transport" transport error with a response (a failed redirect policy)
\*   "non200"    a status other than 200
\*   "badbody"   status 200, the body cannot be read or is not JSON
\*   "ok"        status 200 and a JSON body
LoopAnswers == {"nilresp", "transport", "non200", "badbody", "ok"}

\* fetchImages: one pass of the retry loop, or the loop's exit.
fetchImages(p, ans, n, d) ==
  /\ ~crashed /\ procs[p].pc = "fetchImages"
  /\ LET r == Work(procs[p])
         c == [r EXCEPT !.calls = @ + 1, !.answer = ans]
     IN IF ~FetchLoopContinues(p)
        THEN \* the attempts are used up: the error carries the duration
             /\ ans = "non200" /\ n = 0
             /\ procs' = [procs EXCEPT ![p] =
                   AfterFetch([procs[p] EXCEPT !.fetched = "err",
                                               !.failure = ExhaustedFailure(d)])]
             /\ crashed' = crashed
        ELSE /\ d = 0
             /\ CASE ans = "nilresp" ->
                    \* resp.Body.Close() on the nil response
                    /\ n = 0
                    /\ procs' = [procs EXCEPT ![p] = [c EXCEPT !.pc = "panic"]]
                    /\ crashed' = TRUE
               [] ans = "transport" ->
                    /\ n = 0
                    /\ procs' = [procs EXCEPT ![p] =
                          AfterFetch([c EXCEPT !.fetched = "err", !.failure = CallFailure])]
                    /\ crashed' = crashed
               [] ans = "non200" ->
                    /\ n = 0
                    /\ procs' = [procs EXCEPT ![p] = [c EXCEPT !.nfail = @ + 1]]
                    /\ crashed' = crashed
               [] ans = "badbody" ->
                    /\ n = 0
                    /\ procs' = [procs EXCEPT ![p] =
                          AfterFetch([c EXCEPT !.fetched = "err", !.failure = BodyFailure])]
                    /\ crashed' = crashed
               [] OTHER ->
                    /\ procs' = [procs EXCEPT ![p] =
                          AfterFetch([c EXCEPT !.fetched = "ok", !.nfrag = n])]
                    /\ crashed' = crashed
  /\ UNCHANGED <<config, noopRemoved, events, msgs, files>>

\* The answers to the single call of fetchImage (the status is not read):
\*   "transport" client.Do fails;  "badbody" the body is unreadable or not JSON;
\*   "empty" JSON without an element in data;  "ok" JSON with data[0]
SingleAnswers == {"transport", "badbody", "empty", "ok"}

\* fetchImage: one call, then r.Data[0]["url"].
fetchImage(p, ans) ==
  /\ ~crashed /\ procs[p].pc = "fetchImage"
  /\ LET c == [Work(procs[p]) EXCEPT !.calls = @ + 1, !.answer = ans]
     IN CASE ans = "empty" ->
               \* index out of range
               /\ procs' = [procs EXCEPT ![p] = [c EXCEPT !.pc = "panic"]]
               /\ crashed' = TRUE
          [] ans = "ok" ->
               /\ procs' = [procs EXCEPT ![p] = AfterFetch([c EXCEPT !.fetched = "ok"])]
               /\ crashed' = crashed
          [] OTHER ->
               /\ procs' = [procs EXCEPT ![p] = AfterFetch([c EXCEPT !.fetched = "err"])]
               /\ crashed' = crashed
  /\ UNCHANGED <<config, noopRemoved, events, msgs, files>>

\* -------------------------------------------------------- image compositor
\* The fragment files base64ToImage has deferred the removal of.
DeferredFragments(r) == {FragmentFile(r.id, j) : j \in 0..(r.written - 1)}

\* base64ToImage: one pass of the range loop.
\*   "decode" DecodeString fails;  "write" WriteFile fails without a file;
\*   "partial" WriteFile fails and leaves the file;  "ok"
base64ToImage(p, out) ==
  /\ ~crashed /\ procs[p].pc = "base64ToImage"
  /\ LET r == PastFetch(Work(procs[p]))
         f == FragmentFile(r.id, r.written)
     IN IF out = "ok"
        THEN /\ files' = files \cup {f}
             /\ procs' = [procs EXCEPT ![p] =
                   [r EXCEPT !.written = @ + 1, !.pc = NextB64([r EXCEPT !.written = @ + 1])]]
        ELSE /\ files' = (files \cup (IF out = "partial" THEN {f} ELSE {})) \ DeferredFragments(r)
             /\ procs' = [procs EXCEPT ![p] = AfterCompose([r EXCEPT !.composed = "err"])]
  /\ UNCHANGED <<config, noopRemoved, events, msgs, crashed>>

\* What gim's Merge needs: at least one image (the library refuses an empty
\* grid list), every fragment file readable.
Mergeable(r) ==
  r.nfrag > 0 /\ \A j \in 0..(r.nfrag - 1) : FragmentFile(r.id, j) \in files

\* combineImages, then the return of base64ToImage (its deferred removals).
\*   "merge" Merge fails;  "create" os.Create fails;
\*   "encode" jpeg.Encode fails on the created file;  "ok"
combineImages(p, out) ==
  /\ ~crashed /\ procs[p].pc = "combineImages"
  /\ out # "merge" => Mergeable(procs[p])
  /\ LET r == PastFetch(Work(procs[p]))
         made == IF out \in {"encode", "ok"} THEN {MergedFile(r.id)} ELSE {}
     IN /\ files' = (files \cup made) \ DeferredFragments(r)
        /\ procs' = [procs EXCEPT ![p] =
              AfterCompose([r EXCEPT !.composed = IF out = "ok" THEN "ok" ELSE "err"])]
  /\ UNCHANGED <<config, noopRemoved, events, msgs, crashed>>

\* os.Open of the merged file.
openMerged(p, ok) ==
  /\ ~crashed /\ procs[p].pc = "open"
  /\ ok => MergedFile(procs[p].id) \in files
  /\ LET r == procs[p]
     IN procs' = [procs EXCEPT ![p] =
          IF variant = "fragment" /\ ~ok
          THEN StartSwap(r, "preparing", "failed", "done")
          ELSE [r EXCEPT !.fileOpen = ok, !.pc = "send"]]
  /\ UNCHANGED <<config, noopRemoved, events, msgs, files, crashed>>

\* The deferred os.Remove of the merged file, at the handler's return.
deferredRemove(p) ==
  /\ ~crashed /\ procs[p].pc = "deferred"
  /\ files' = files \ {MergedFile(procs[p].id)}
  /\ procs' = [procs EXCEPT ![p].pc = "done"]
  /\ UNCHANGED <<config, noopRemoved, events, msgs, crashed>>

\* ----------------------------------------------------------------- delivery
\* The delivery send of the handler: ChannelFileSendWithMessage (fragments),
\* ChannelMessageSend (single), ChannelMessageSendReply (reaction).  A send
\* of a file that was never opened fails while the request body is built.
send(p, ok) ==
  /\ ~crashed /\ procs[p].pc = "send"
  /\ LET r == PastFetch(procs[p])
         w == [Work(r) EXCEPT !.sends = @ + 1]
         sent == [w EXCEPT !.posted = @ + 1]
         new == Len(msgs) + 1
     IN IF ~r.channelOk
        THEN \* channel.ID on the nil channel
             /\ ~ok
             /\ procs' = [procs EXCEPT ![p] = [r EXCEPT !.pc = "panic"]]
             /\ msgs' = msgs
             /\ crashed' = TRUE
        ELSE /\ crashed' = crashed
             /\ ok /\ variant \in {"restricted", "fragment"} => r.fileOpen
             /\ msgs' = IF ~ok THEN msgs
                        ELSE Append(msgs, Message(Bot,
                               IF variant = "reaction" THEN r.id ELSE NoMsg, ImageReply))
             /\ procs' = [procs EXCEPT ![p] =
                  CASE variant = "restricted" ->
                         [(IF ok THEN sent ELSE w) EXCEPT !.pc = "deferred"]
                    [] variant = "fragment" ->
                         IF ok THEN StartSwap(sent, "preparing", "succeeded", "deferred")
                         ELSE StartSwap(w, "preparing", "failed", "deferred")
                    [] variant = "single" ->
                         IF ok THEN StartSwap(sent, "preparing", "succeeded", "done")
                         ELSE StartSwap(w, "preparing", "failed", "done")
                    [] OTHER ->
                         IF ok THEN StartSwap([sent EXCEPT !.reply = new],
                                              "working", "succeeded", "setRetry")
                         ELSE StartSwap(w, "working", "failed", "done")]
  /\ UNCHANGED <<config, noopRemoved, events, files>>

\* --------------------------------------------------------- status annotator
\* swapStatus (setStatus of the older variants), first step:
\* s.MessageReactionRemove(old, "@me"); an error returns without the add.
swapRemove(p, ok) ==
  /\ ~crashed /\ procs[p].pc = "swapRemove"
  /\ noopRemoved' = (noopRemoved \/ (ok /\ procs[p].swOld \notin msgs[procs[p].target].reactions))
  /\ LET r == PastFetch(procs[p])
     IN IF ok
        THEN /\ msgs' = ReactionRemoved(msgs, r.target, r.swOld)
             /\ procs' = [procs EXCEPT ![p] = [r EXCEPT !.pc = "swapAdd", !.swState =
                   IF r.swOld \in msgs[r.target].reactions THEN "removed" ELSE "absent"]]
        ELSE /\ msgs' = msgs
             /\ procs' = [procs EXCEPT ![p] =
                   [r EXCEPT !.pc = r.swNext, !.swState = "removeFailed", !.annFailed = TRUE]]
  /\ UNCHANGED <<config, events, files, crashed>>

\* swapStatus, second step: s.MessageReactionAdd(new).  Every caller drops
\* the error swapStatus returns.
swapAdd(p, ok) ==
  /\ ~crashed /\ procs[p].pc = "swapAdd"
  /\ LET r == procs[p]
     IN IF ok
        THEN /\ msgs' = ReactionAdded(msgs, r.target, r.swNew)
             /\ procs' = [procs EXCEPT ![p] =
                   [r EXCEPT !.pc = r.swNext, !.swState = "added",
                             !.term = IF r.swNew \in Terminal THEN r.swNew ELSE @]]
        ELSE /\ msgs' = msgs
             /\ procs' = [procs EXCEPT ![p] =
                   [r EXCEPT !.pc = r.swNext, !.swState = "addFailed", !.annFailed = TRUE]]
  /\ UNCHANGED <<config, noopRemoved, events, files, crashed>>

\* setStatus(reply, retry) of the reaction variant: one add, error dropped.
setRetry(p, ok) ==
  /\ ~crashed /\ procs[p].pc = "setRetry"
  /\ LET r == procs[p]
     IN /\ msgs' = IF ok THEN ReactionAdded(msgs, r.reply, "retry") ELSE msgs
        /\ procs' = [procs EXCEPT ![p] =
              [r EXCEPT !.pc = "done", !.annFailed = @ \/ ~ok]]
  /\ UNCHANGED <<config, noopRemoved, events, files, crashed>>

\* setStatus(reacted-to message, working) of onEmojiAddHandler: error dropped.
setWorking(p, ok) ==
  /\ ~crashed /\ procs[p].pc = "setWorking"
  /\ LET r == procs[p]
     IN /\ msgs' = IF ok THEN ReactionAdded(msgs, r.target, "working") ELSE msgs
        /\ procs' = [procs EXCEPT ![p] =
              [r EXCEPT !.pc = FetchPc, !.placed = ok, !.annFailed = ~ok]]
  /\ UNCHANGED <<config, noopRemoved, events, files, crashed>>

\* -------------------------------------------------------- onEmojiAddHandler
\* hasCorrectFormat of the search: len(content) >= 7 && content[:7] == "/dalle "
HasCorrectFormat(text) ==
  LET content == ToLower(text)
  IN Len(content) >= PrefixLen /\ HasPrefix(content)

\* (a search that gives up at the first message of the bot)
OriginNoFollow(m) ==
  IF msgs[m].author = Bot THEN NoMsg
  ELSE IF HasCorrectFormat(msgs[m].text) THEN m ELSE NoMsg

\* The search for the message that asked for the image: bot messages are
\* followed to their reply-parent, the first other message decides.
RECURSIVE Origin(_)
Origin(m) ==
  IF msgs[m].author = Bot
  THEN IF msgs[m].ref = NoMsg THEN NoMsg ELSE Origin(msgs[m].ref)
  ELSE IF HasCorrectFormat(msgs[m].text) THEN m ELSE NoMsg

\* The number of times the search moves on to a reply-parent.
RECURSIVE Hops(_)
Hops(m) ==
  IF msgs[m].author = Bot /\ msgs[m].ref # NoMsg THEN 1 + Hops(msgs[m].ref) ELSE 0

\* (guards that leave out the check of who reacted)
CorrelatesAnyReactor(user, mid, emoji) ==
  /\ msgs[mid].author = Bot
  /\ msgs[mid].ref # NoMsg
  /\ emoji = "retry"
  /\ Origin(msgs[mid].ref) # NoMsg

\* The handler's guards up to the prompt: the reacted-to message is the
\* bot's, the reaction is not, the message is a reply, the emoji is retry,
\* the search finds a command.
Correlates(user, mid, emoji) ==
  /\ msgs[mid].author = Bot
  /\ user # Bot
  /\ msgs[mid].ref # NoMsg
  /\ emoji = "retry"
  /\ Origin(msgs[mid].ref) # NoMsg

\* prompt := strings.TrimSpace(content[7:]) on the message the search found
WalkPrompt(mid) == TrimSpace(AfterPrefix(ToLower(msgs[Origin(msgs[mid].ref)].text)))

\* ... and the prompt is not "help".
Regenerates(user, mid, emoji) ==
  Correlates(user, mid, emoji) /\ WalkPrompt(mid) # Help

\* A reaction-added event (the handler is registered in the reaction variant
\* only): s.ChannelMessage, the guards, the search, the guild and channel
\* lookups.  The bot's own reactions come in as events too.
onEmojiAddHandler(p, user, mid, emoji, gotMessage, lookupOk) ==
  /\ ~crashed /\ NextSlot(p)
  /\ variant = "reaction"
  /\ mid \in 1..Len(msgs)
  /\ user = Bot =>
       IF emoji = "retry" THEN "retry" \in msgs[mid].reactions
       ELSE msgs[mid].reactions \cap Lifecycle # {}
  /\ LET r == [IdleProc EXCEPT !.handler = "emoji", !.target = mid,
                               !.by = user, !.emoji = emoji, !.got = gotMessage]
     IN IF gotMessage /\ Correlates(user, mid, emoji)
        THEN LET w == [r EXCEPT !.id = Origin(msgs[mid].ref),
                                !.hops = Hops(msgs[mid].ref),
                                !.prompt = WalkPrompt(mid)]
             IN IF Regenerates(user, mid, emoji)
                THEN procs' = [procs EXCEPT ![p] =
                       [w EXCEPT !.pc = "setWorking", !.channelOk = lookupOk]]
                ELSE /\ lookupOk
                     /\ procs' = [procs EXCEPT ![p] = [w EXCEPT !.pc = "done"]]
        ELSE /\ lookupOk
             /\ procs' = [procs EXCEPT ![p] = [r EXCEPT !.pc = "done"]]
  /\ events' = events + 1
  /\ UNCHANGED <<config, noopRemoved, msgs, files, crashed>>

\* The handler returns: the goroutine ends and its frame is gone.
handlerReturn(p) ==
  /\ ~crashed /\ procs[p].pc = "done"
  /\ procs' = [procs EXCEPT ![p] = IdleProc]
  /\ UNCHANGED <<config, noopRemoved, events, msgs, files, crashed>>

\* ------------------------------------------------------------ specification
Next ==
  \E p \in Procs :
    \/ \E a \in Authors \cup {Bot}, t \in Contents \cup BotTexts,
          m \in 1..(Len(msgs) + 1), l \in BOOLEAN : onMessageHandler(p, a, t, m, l)
    \/ \E u \in Reactors, m \in 1..Len(msgs), e \in Emojis,
          g \in BOOLEAN, l \in BOOLEAN :
         onEmojiAddHandler(p, u, m, e, g, l)
    \/ \E ok \in BOOLEAN : sendHelp(p, ok)
    \/ \E ok \in BOOLEAN : addWorking(p, ok)
    \/ \E ok \in BOOLEAN : specialReply(p, ok)
    \/ \E ok \in BOOLEAN : setWorking(p, ok)
    \/ \E ans \in LoopAnswers, n \in 0..MaxFragments, d \in 0..MaxSeconds :
         fetchImages(p, ans, n, d)
    \/ \E ans \in SingleAnswers : fetchImage(p, ans)
    \/ \E out \in {"decode", "write", "partial", "ok"} : base64ToImage(p, out)
    \/ \E out \in {"merge", "create", "encode", "ok"} : combineImages(p, out)
    \/ \E ok \in BOOLEAN : openMerged(p, ok)
    \/ \E ok \in BOOLEAN : send(p, ok)
    \/ \E ok \in BOOLEAN : swapRemove(p, ok)
    \/ \E ok \in BOOLEAN : swapAdd(p, ok)
    \/ \E ok \in BOOLEAN : setRetry(p, ok)
    \/ deferredRemove(p)
    \/ handlerReturn(p)

Spec == Init /\ [][Next]_vars

\* ------------------------------------------------- the search, on its inputs
\* The reply structures s.ChannelMessage can hand to onEmojiAddHandler: the
\* reacted-to message is any message of a chain in which every message
\* either replies to the one before it or to none.  The first message is the
\* bot's or a user's, with any of the texts; the later ones are replies of
\* the bot or remarks of a user.
FirstNodes ==
  {<<Bot, ImageReply>>} \cup {<<"user", t>> : t \in {CatText, HelpText, BareText, ChatText}}
LaterNodes == {<<Bot, ImageReply>>, <<"user", ChatText>>}

RECURSIVE ChainsOfLen(_)
ChainsOfLen(n) ==
  IF n = 1 THEN {<<Message(x[1], NoMsg, x[2])>> : x \in FirstNodes}
  ELSE {Append(c, Message(x[1], r, x[2])) :
          c \in ChainsOfLen(n - 1), x \in LaterNodes, r \in {NoMsg, n - 1}}

Chains == UNION {ChainsOfLen(n) : n \in 1..MaxChain}

\* The reaction variant in front of one of these channels, with one event
\* left to come.
WalkInit ==
  /\ variant = "reaction"
  /\ dalleRetries = 0
  /\ msgs \in Chains
  /\ procs = [p \in Procs |-> IdleProc]
  /\ events = MaxTriggers - 1
  /\ files = {}
  /\ crashed = FALSE
  /\ noopRemoved = FALSE

\* The steps of the reaction variant.
WalkNext ==
  \E p \in Procs :
    \/ \E a \in Authors \cup {Bot}, t \in EdgeContents \cup BotTexts,
          m \in 1..(Len(msgs) + 1), l \in BOOLEAN : onMessageHandler(p, a, t, m, l)
    \/ \E u \in Reactors, m \in 1..Len(msgs), e \in Emojis,
          g \in BOOLEAN, l \in BOOLEAN :
         onEmojiAddHandler(p, u, m, e, g, l)
    \/ \E ok \in BOOLEAN : sendHelp(p, ok)
    \/ \E ok \in BOOLEAN : addWorking(p, ok)
    \/ \E ok \in BOOLEAN : specialReply(p, ok)
    \/ \E ok \in BOOLEAN : setWorking(p, ok)
    \/ \E ans \in SingleAnswers : fetchImage(p, ans)
    \/ \E ok \in BOOLEAN : send(p, ok)
    \/ \E ok \in BOOLEAN : swapRemove(p, ok)
    \/ \E ok \in BOOLEAN : swapAdd(p, ok)
    \/ \E ok \in BOOLEAN : setRetry(p, ok)
    \/ handlerReturn(p)

WalkSpec == WalkInit /\ [][WalkNext]_vars

\* ==================================================================== claims
UsesRetryLoop == variant \in {"restricted", "fragment"}
LifecycleOn(m) == msgs[m].reactions \cap Lifecycle

\* ------------------------------------------------------------------------ C1
\* C1 as stated: with config.DalleRetries >= 1, once fetchImages has returned:
\* if call k was answered with status 200 (the calls before it with another
\* status), exactly k calls were issued and the result is a success; if every
\* call was answered with another status, exactly DalleRetries calls were
\* issued and the result is a failure; at no time are there more calls than
\* DalleRetries.
C1_RetryLoopAsStated ==
  \A p \in Procs :
    LET r == procs[p]
    IN (UsesRetryLoop /\ dalleRetries >= 1) =>
         /\ r.calls <= dalleRetries
         /\ (r.returned /\ r.answer \in {"ok", "badbody"}) =>
               (r.calls = r.nfail + 1 /\ r.fetched = "ok")
         /\ (r.returned /\ r.answer = "non200") =>
               (r.calls = dalleRetries /\ r.nfail = dalleRetries /\ r.fetched = "err")

\* C1 amended: the same, except that the answer to call k must be a status
\* 200 whose body can be read and parsed for the result to be a success; a
\* status 200 with an unreadable or malformed body ends the loop after
\* exactly k calls with a failure.
C1_RetryLoop ==
  \A p \in Procs :
    LET r == procs[p]
    IN (UsesRetryLoop /\ dalleRetries >= 1) =>
         /\ r.calls <= dalleRetries
         /\ (r.returned /\ r.answer = "ok") =>
               (r.calls = r.nfail + 1 /\ r.fetched = "ok")
         /\ (r.returned /\ r.answer = "badbody") =>
               (r.calls = r.nfail + 1 /\ r.fetched = "err")
         /\ (r.returned /\ r.answer = "non200") =>
               (r.calls = dalleRetries /\ r.nfail = dalleRetries /\ r.fetched = "err")

\* One handler's fetchImages has returned a success on call 2 after one
\* failure status, another's has used up both attempts.
C1_Witness ==
  /\ UsesRetryLoop /\ dalleRetries = 2
  /\ \E p, q \in Procs :
       /\ procs[p].returned /\ procs[p].answer = "ok"
       /\ procs[p].calls = 2 /\ procs[p].nfail = 1 /\ procs[p].fetched = "ok"
       /\ procs[q].returned /\ procs[q].answer = "non200"
       /\ procs[q].calls = 2 /\ procs[q].fetched = "err"

\* ------------------------------------------------------------------------ C2
\* C2: a transport-level error on the first call of fetchImages ends the
\* loop after that one call, and fetchImages returns the error to the
\* handler as a failure value.
C2_TransportErrorReturned ==
  \A p \in Procs :
    LET r == procs[p]
    IN (UsesRetryLoop /\ r.calls = 1 /\ r.answer \in {"nilresp", "transport"}) =>
         (r.returned /\ r.fetched = "err" /\ r.pc # "panic" /\ ~crashed)

\* ------------------------------------------------------------------------ C3
\* C3: no failure of a pipeline step is fatal to the process: no state in
\* which the process has died of a panic is reachable.
C3_NoFatalFailure == ~crashed

\* ------------------------------------------------------------------------ C4
\* C4: under command triggers and retry-reaction triggers (the reaction
\* variant), every message carries at most one lifecycle marker.  (Stated for
\* the runs in which no removal of an absent reaction was answered with
\* success, so that a violation does not rest on that answer.)
C4_AtMostOneMarker ==
  (variant = "reaction" /\ ~noopRemoved) =>
    \A m \in 1..Len(msgs) : Cardinality(LifecycleOn(m)) <= 1

\* ------------------------------------------------------------------------ C5
\* C5: once a message carries succeeded or failed, no step adds or removes a
\* lifecycle marker on it.  (Stated, as C4, for the runs in which no removal
\* of an absent reaction was answered with success.)
C5_TerminalIsFinal ==
  [][ \A m \in 1..Len(msgs) :
        (~noopRemoved' /\ msgs[m].reactions \cap Terminal # {}) =>
           msgs'[m].reactions \cap Lifecycle = msgs[m].reactions \cap Lifecycle ]_vars

\* ------------------------------------------------------------------------ C6
\* C6: a handler that has put the working marker and whose annotation calls
\* all succeeded has, when it returns, put succeeded or failed.
C6_WorkingReplaced ==
  \A p \in Procs :
    (Done(p) /\ procs[p].placed /\ ~procs[p].annFailed) => procs[p].term # "none"

\* ------------------------------------------------------------------------ C7
\* C7: after an annotation call of a handler has failed, the handler issues
\* no generation call, no composition step and no delivery send.
C7_AnnotationFailureAborts ==
  \A p \in Procs : ~procs[p].lateWork

\* ------------------------------------------------------------------------ C8
\* C8: when the removal of a swap has removed the old marker and the add
\* fails, the message is left without any lifecycle marker.
C8_FailedSwapLeavesNoMarker ==
  [][ \A p \in Procs :
        (procs[p].pc = "swapAdd" /\ procs[p].swState = "removed"
           /\ procs'[p].swState = "addFailed") =>
          msgs'[procs[p].target].reactions \cap Lifecycle = {} ]_vars

\* ------------------------------------------------------------------------ C9
\* C9: when a handler (of the fragment variant) that entered the compositor
\* has returned, neither a fragment file nor the merged file of its request
\* is left on disk.
C9_ScratchCleanedUp ==
  \A p \in Procs :
    (variant = "fragment" /\ Done(p) /\ procs[p].composed # "none") =>
       \A f \in files : f[1] # procs[p].id

\* ----------------------------------------------------------------------- C10
\* C10: a handler whose generation call or whose composition failed posts
\* no delivery.
C10_NoDeliveryAfterFailure ==
  \A p \in Procs :
    (procs[p].fetched = "err" \/ procs[p].composed = "err") => procs[p].posted = 0

\* ----------------------------------------------------------------------- C11
\* A text whose part after the prefix is, trimmed and in any letter case,
\* the word help.
IsHelpText(text) ==
  /\ Len(text) > PrefixLen
  /\ HasPrefix(ToLower(text))
  /\ ToLower(TrimSpace(AfterPrefix(text))) = Help

\* C11: a handler whose trigger (the command message, or the message the
\* search found) is a help text issues no generation call, no marker call
\* and no delivery send.
C11_HelpIsInert ==
  \A p \in Procs :
    LET r == procs[p]
    IN (Started(p) /\ r.id # NoMsg /\ r.by # Bot /\ IsHelpText(msgs[r.id].text)
          /\ (variant = "restricted" => r.by = Owner)) =>
         /\ r.calls = 0
         /\ ~r.placed /\ ~r.annFailed /\ r.swState = "none"
         /\ r.sends = 0

\* ----------------------------------------------------------------------- C12
\* C12: the prompt of the request a command message produces is the text
\* after the prefix, trimmed, in the letter case the author wrote it in.
C12_PromptKeepsCasing ==
  \A p \in Procs :
    LET r == procs[p]
    IN (r.handler = "message" /\ Admitted(r.by, msgs[r.id].text)) =>
         r.prompt = TrimSpace(AfterPrefix(msgs[r.id].text))

\* ----------------------------------------------------------------------- C13
\* C13: a generation call is never issued with an empty prompt.
C13_PromptNonEmpty ==
  \A p \in Procs : procs[p].calls > 0 => procs[p].prompt # <<>>

\* ----------------------------------------------------------------------- C14
\* C14: a handler started by a message of the bot, by a reaction of the
\* bot, by a reaction on a message that is no reply, or by a reaction with
\* another emoji than retry, returns at once: it issues no generation call,
\* no marker call and no send.
C14_SelfAndGestureRejected ==
  \A p \in Procs :
    LET r == procs[p]
    IN (Started(p) /\ (\/ r.by = Bot
                       \/ r.handler = "emoji" /\ msgs[r.target].ref = NoMsg
                       \/ r.handler = "emoji" /\ r.emoji # "retry")) =>
         /\ r.pc = "done"
         /\ r.calls = 0 /\ r.fetched = "none" /\ r.sends = 0
         /\ ~r.placed /\ ~r.annFailed /\ r.swState = "none"

\* The event of the retry reaction the bot itself has put on one of its
\* replies was handled.
C14_Witness ==
  \E p \in Procs :
    LET r == procs[p]
    IN /\ Done(p) /\ r.handler = "emoji" /\ r.by = Bot /\ r.emoji = "retry"
       /\ msgs[r.target].author = Bot /\ msgs[r.target].ref # NoMsg
       /\ "retry" \in msgs[r.target].reactions
       /\ HasCorrectFormat(msgs[msgs[r.target].ref].text)

\* ----------------------------------------------------------------------- C15
\* The command grammar: the prefix in any letter case and a remainder that
\* is not empty after trimming.
MatchesGrammar(text) ==
  /\ Len(text) > PrefixLen
  /\ HasPrefix(ToLower(text))
  /\ TrimSpace(AfterPrefix(text)) # <<>>

\* A channel that begins with a user's command, the bot's reply to it, and a
\* second message of the bot: one that replies to nothing (dangling), or one
\* that replies to the bot's first message (linked).
AckChain ==
  /\ Len(msgs) >= 3
  /\ msgs[1].author # Bot /\ MatchesGrammar(msgs[1].text)
  /\ msgs[2].author = Bot /\ msgs[2].ref = 1
  /\ msgs[3].author = Bot
DanglingAck == AckChain /\ msgs[3].ref = NoMsg
LinkedAck == AckChain /\ msgs[3].ref = 2

\* A handler of a retry reaction of a user on the second message of the bot,
\* which s.ChannelMessage has fetched.
RetryOnAck(p) ==
  /\ procs[p].handler = "emoji" /\ procs[p].target = 3 /\ procs[p].got
  /\ procs[p].by # Bot /\ procs[p].emoji = "retry"

HopBound == MaxChain - 3

\* C16: a search that has made more hops than the bound starts no pipeline.
C16_FailsClosedPastBound ==
  \A p \in Procs :
    procs[p].hops > HopBound =>
      (procs[p].pc = "done" /\ procs[p].calls = 0 /\ procs[p].fetched = "none"
         /\ ~procs[p].placed /\ ~procs[p].annFailed)

\* ----------------------------------------------------------------------- C17
\* The scratch files of request id.
FilesOf(fs, id) == {f \in fs : f[1] = id}

InFlight(p) ==
  /\ Running(p) /\ procs[p].pc # "panic"
  /\ procs[p].placed /\ procs[p].term = "none"

\* C18: no two pipelines in flight have the same target message.
C18_OneInFlightPerMessage ==
  \A p, q \in Procs :
    (p # q /\ InFlight(p) /\ InFlight(q)) => procs[p].target # procs[q].target

\* ----------------------------------------------------------------------- C19
\* The walk as the claim words it: across the bot's messages to their
\* reply-parents; none at a bot message without reply-parent and at a first
\* message of a user that does not match the command grammar.
RECURSIVE GrammarOrigin(_)
GrammarOrigin(m) ==
  IF msgs[m].author = Bot
  THEN IF msgs[m].ref = NoMsg THEN NoMsg ELSE GrammarOrigin(msgs[m].ref)
  ELSE IF MatchesGrammar(msgs[m].text) THEN m ELSE NoMsg

\* C19: a retry reaction of a user on a reply of the bot starts no pipeline
\* when the walk finds no origin; otherwise the request is the origin's and
\* its prompt is the origin's text after the prefix, trimmed.
C19_WalkResult ==
  \A p \in Procs :
    LET r == procs[p]
    IN (r.handler = "emoji" /\ r.got /\ r.by # Bot /\ r.emoji = "retry"
          /\ msgs[r.target].author = Bot /\ msgs[r.target].ref # NoMsg) =>
         LET o == GrammarOrigin(msgs[r.target].ref)
         IN IF o = NoMsg
            THEN /\ r.pc = "done" /\ r.id = NoMsg
                 /\ r.calls = 0 /\ r.fetched = "none" /\ ~r.placed /\ ~r.annFailed
            ELSE /\ r.id = o
                 /\ r.prompt = TrimSpace(AfterPrefix(msgs[o].text))

\* ----------------------------------------------------------------------- C20
\* C20: as long as the annotation calls of a command's handler have
\* succeeded, every swap it starts names as the marker to remove one the
\* command message carries; and when the handler has returned, the message
\* carries succeeded alone after a delivery, failed alone after a failed
\* generation or delivery.
C20_SwapNamesVisibleMarker ==
  \A p \in Procs :
    LET r == procs[p]
    IN (r.handler = "message" /\ r.placed /\ ~r.annFailed) =>
         /\ r.pc = "swapRemove" => r.swOld \in msgs[r.target].reactions
         /\ (Done(p) /\ r.posted > 0) => LifecycleOn(r.target) = {"succeeded"}
         /\ (Done(p) /\ r.posted = 0) => LifecycleOn(r.target) = {"failed"}

\* ----------------------------------------------------------------------- C21
\* The step from the current state to the next is a step of handler p that
\* puts lifecycle marker x on its target.
Puts(p, x) ==
  /\ procs'[p] # procs[p]
  /\ procs[p].target # NoMsg
  /\ x \in msgs'[procs[p].target].reactions
  /\ x \notin msgs[procs[p].target].reactions

\* The step is a generation call of handler p.
Calls(p) == procs'[p].calls = procs[p].calls + 1

\* The step is a composition step of handler p.
Composes(p) ==
  procs[p].pc \in {"base64ToImage", "combineImages"} /\ procs'[p] # procs[p]

\* C21: in the variants with markers, a handler issues a generation call
\* only after it has tried to put the working marker; in the fragment
\* variant preparing is put only after the generation call has returned a
\* success and before any composition step, and composition starts only
\* after the swap to preparing was tried; succeeded is put only after the
\* delivery send of the handler has succeeded; and a handler puts working
\* only as its first marker, and no marker after a terminal one.
C21_LifecycleOrder ==
  [][ \A p \in Procs :
        LET r == procs[p]
        IN /\ (Calls(p) /\ variant # "restricted") => (r.placed \/ r.annFailed)
           /\ Puts(p, "preparing") =>
                 (variant = "fragment" /\ r.fetched = "ok" /\ r.composed = "none"
                    /\ r.written = 0 /\ r.placed)
           /\ (Composes(p) /\ variant = "fragment") =>
                 (r.swNew = "preparing" /\ r.swState # "none")
           /\ Puts(p, "succeeded") => (r.posted > 0 /\ r.fetched = "ok")
           /\ Puts(p, "working") =>
                 (~r.placed /\ r.swState = "none" /\ r.term = "none")
           /\ \A x \in Lifecycle : Puts(p, x) => r.term = "none" ]_vars

\* A handler of the fragment variant has gone through the whole lifecycle:
\* every annotation call succeeded, the image was delivered, and the command
\* carries succeeded alone.
C21_Witness ==
  /\ variant = "fragment"
  /\ \E p \in Procs :
       /\ Done(p) /\ procs[p].placed /\ ~procs[p].annFailed
       /\ procs[p].fetched = "ok" /\ procs[p].composed = "ok" /\ procs[p].posted = 1
       /\ procs[p].term = "succeeded"
       /\ LifecycleOn(procs[p].target) = {"succeeded"}

\* ----------------------------------------------------------------------- C22
\* C22: when fetchImages has used up its attempts, as many calls were
\* issued as config.DalleRetries says (none when it is 0), and the failure
\* it returns carries the elapsed duration and that number of attempts.
C22_ExhaustionReportsAttempts ==
  \A p \in Procs :
    LET r == procs[p]
        f == r.failure
    IN (UsesRetryLoop /\ r.returned /\ f.text = "Failed to get images for request") =>
         /\ r.calls = dalleRetries
         /\ "duration" \in DOMAIN f
         /\ "attempts" \in DOMAIN f
         /\ f.attempts = dalleRetries

====
